---- MODULE Spec2Model ----
(***************************************************************************)
(* Model of the navigation block placeholder of                            *)
(* packages/block-library/src/navigation/placeholder.js: the menu-item and *)
(* page mappers, the create-button predicate and the NavigationPlaceholder *)
(* component (both versions found in the file) driven by user clicks and  *)
(* by the resolution of the core-data fetches it reads through useSelect.  *)
(* Further down: the width handling of the media-text block                *)
(* (packages/block-library/src/media-text) and getBlockTemplate of         *)
(* packages/create-block/lib/templates.js.                                 *)
(***************************************************************************)
EXTENDS Integers, Sequences, FiniteSets, TLC

(***************************************************************************)
(* Bounds of the model.                                                    *)
(***************************************************************************)
NumMenus == 2          \* menus the site can have (ids 1..NumMenus)
MaxClicks == 3         \* user clicks on a creation entry point
MaxOptionMenu == 8     \* menu ids offered to the create-button predicate
MaxItems == 3          \* items of a menu item list given to the conversion
MaxPages == 2          \* pages of a page list given to the Page Mapper
NearEdge == 3          \* widths tried on each side of the two width limits

(***************************************************************************)
(* JavaScript values.  An optional value (undefined / null against a       *)
(* present value) is a sequence of length 0 or 1.                          *)
(***************************************************************************)
None == << >>
Some(x) == << x >>
IsSome(o) == Len(o) = 1
Str(s) == << "string", s >>
Num(n) == << "number", n >>
NoAttributes == [k \in {} |-> ""]

\* selectedMenu before any menu was chosen: useState() without an argument.
NoMenu == 0
MenuIds == 1 .. NumMenus

VARIABLES
    variant,            \* which NavigationPlaceholder of the file is mounted (1, 2)
    pagesStatus,        \* resolution of getEntityRecords( postType, page, ... )
    pages,              \* its result: None until resolved
    menusStatus,        \* resolution of getMenus( { per_page: -1 } )
    menus,              \* its result: None until resolved
    itemsStatus,        \* resolution of getMenuItems( { menus: id } ), per menu id
    selectedMenu,       \* useState(): NoMenu or a menu id
    isCreatingFromMenu, \* the pending "creating from menu" flag
    calls,              \* the invocations of onCreate, in order
    clickLog,           \* the user's clicks on creation entry points, in order
    btnOption,          \* create-button predicate: selectedCreateOption
    btnPages,           \* create-button predicate: hasResolvedPages
    btnItems,           \* create-button predicate: hasResolvedMenuItems
    btnDisabled,        \* create-button predicate: the value last rendered
    btnPrev,            \* create-button predicate: the value rendered before that
    treeItems,          \* conversion: the flat menu item list given
    treeOut,            \* conversion: the Tree Builder's output, None before
    blocksOut,          \* conversion: the Block Mapper's outcome, None before
    convStack,          \* traversal: ids of the nodes still to visit
    convVisits,         \* traversal: nodes visited so far
    itemIn,             \* one menu item given to the Block Mapper
    itemOut,            \* the outcome for that item, None before
    pagesIn,            \* Page Mapper: the pages argument, None when absent
    pagesOut,           \* Page Mapper: [ value |-> result ] once it returned
    temporaryMediaWidth, \* media-text: state.mediaWidth, None for null
    mediaWidth,         \* media-text: the mediaWidth attribute of the block
    committed,          \* media-text: commitWidthChange has written mediaWidth
    selectionEnabled,   \* media-text: last toggleSelection( ... ) argument
    lastResize,         \* media-text: the last resize callback and its width
    tplEnv,             \* create-block: template name and what npm, fs, require do
    tplPc,              \* create-block: position in getBlockTemplate
    tempCwd,            \* create-block: the tempCwd local, None when undefined
    tempDirs,           \* create-block: temporary directories on disk
    tplResult           \* create-block: how getBlockTemplate ended, None before

ctlVars == << variant, pagesStatus, pages, menusStatus, menus, itemsStatus,
              selectedMenu, isCreatingFromMenu, calls, clickLog >>
btnVars == << btnOption, btnPages, btnItems, btnDisabled, btnPrev >>
treeVars == << treeItems, treeOut, blocksOut, convStack, convVisits >>
itemVars == << itemIn, itemOut >>
pageVars == << pagesIn, pagesOut >>
mtVars == << temporaryMediaWidth, mediaWidth, committed, selectionEnabled, lastResize >>
tplVars == << tplEnv, tplPc, tempCwd, tempDirs, tplResult >>
otherVars == << pageVars, mtVars, tplVars >>
pureVars == << treeVars, itemVars, otherVars >>
vars == << ctlVars, btnVars, pureVars >>

(***************************************************************************)
(* Data the fetches return.                                                *)
(***************************************************************************)
MenuItemRecord(id, parent, type, title, url, content) ==
    [ id |-> id, parent |-> parent, type |-> type,
      title |-> [ rendered |-> Some(title) ], url |-> Some(url),
      description |-> Some(""), target |-> Some(""), xfn |-> Some(<< >>),
      classes |-> Some(<< >>), content |-> content ]

\* The items of each menu of the site: menu 1 has a parent and a child,
\* menu 2 is empty, menu 3 holds a block item, any other menu one link.
MenuItemsOf(m) ==
    CASE m = 1 -> << MenuItemRecord(11, 0, "custom", "Home", "/", None),
                     MenuItemRecord(12, 11, "custom", "", "/sub", None) >>
      [] m = 2 -> << >>
      [] m = 3 -> << MenuItemRecord(31, 0, "block", "", "",
                                    Some([ raw |-> "<!-- wp:search /-->" ])) >>
      [] OTHER -> << MenuItemRecord(10 * m, 0, "custom", "Link", "/l", None) >>

PageRecord(id, title, link) ==
    [ id |-> id, title |-> [ rendered |-> title ], type |-> "page", link |-> link ]

PageLists ==
    { << >>,
      << PageRecord(5, "", "/about") >>,
      << PageRecord(5, "About", "/about"), PageRecord(6, "", "/contact") >> }

MenuList(k) == [ i \in 1 .. k |-> [ id |-> i ] ]

(***************************************************************************)
(* External collaborators: createBlock echoes its inputs, parse returns    *)
(* the blocks of a markup text (none for text that holds no block), __     *)
(* returns the text it is given.                                           *)
(***************************************************************************)
createBlock(name, attributes, innerBlocks) ==
    [ name |-> name, attributes |-> attributes, innerBlocks |-> innerBlocks ]

parse(raw) ==
    IF raw = "<!-- wp:search /-->"
    THEN << createBlock("core/search", NoAttributes, << >>) >>
    ELSE << >>

NoTitle == "(no title)"

\* Array.prototype.join( ' ' ) over strings held as sequences of characters.
RECURSIVE join(_)
join(xs) ==
    IF Len(xs) = 0 THEN << >>
    ELSE IF Len(xs) = 1 THEN xs[1]
    ELSE xs[1] \o << " " >> \o join(Tail(xs))

\* lodash some( list ): some entry is truthy (a non-empty string).
some(xs) == \E i \in 1 .. Len(xs) : xs[i] # << >>

(***************************************************************************)
(* Tree Builder, createDataTree( menuItems ) of ./create-data-tree: roots  *)
(* are the items whose parent is 0 or names no item of the list; the       *)
(* children of a node are the items whose parent is its id, in list order. *)
(***************************************************************************)
ItemIds(menuItems) == { menuItems[i].id : i \in 1 .. Len(menuItems) }

\* Mutant: every item is a root, also one that has its parent in the list.
IsRootItem_Every(menuItems, item) == TRUE

\* Mutant: only a parent of 0 makes a root.
IsRootItem_ZeroOnly(menuItems, item) == item.parent = 0

IsRootItem(menuItems, item) ==
    item.parent = 0 \/ item.parent \notin ItemIds(menuItems)

RECURSIVE treeNode(_, _)
\* Mutant: each child is put in front of its siblings.
treeNode_Unshift(menuItems, item) ==
    LET kids == SelectSeq(menuItems, LAMBDA c : c.parent = item.id)
    IN  [ item |-> item,
          children |-> [ i \in 1 .. Len(kids) |->
                             treeNode(menuItems, kids[Len(kids) + 1 - i]) ] ]

treeNode(menuItems, item) ==
    LET kids == SelectSeq(menuItems, LAMBDA c : c.parent = item.id)
    IN  [ item |-> item,
          children |-> [ i \in 1 .. Len(kids) |-> treeNode(menuItems, kids[i]) ] ]

createDataTree(menuItems) ==
    LET roots == SelectSeq(menuItems, LAMBDA r : IsRootItem(menuItems, r))
    IN  [ i \in 1 .. Len(roots) |-> treeNode(menuItems, roots[i]) ]

(***************************************************************************)
(* Block Mapper: mapMenuItemsToBlocks.                                     *)
(***************************************************************************)
\* A field is truthy when it is present and not the empty string.
\* Mutant: a present empty string counts as a value.
Truthy_Present(field) == IsSome(field)

Truthy(field) == IsSome(field) /\ field[1] # ""

\* list?.length && some( list )
someOf(list) == IsSome(list) /\ Len(list[1]) > 0 /\ some(list[1])

\* Mutant: any target that is set opens a new tab.
linkAttributes_AnyTarget(menuItem) ==
    [ label |-> IF ~Truthy(menuItem.title.rendered) THEN NoTitle ELSE menuItem.title.rendered[1],
      opensInNewTab |-> Truthy(menuItem.target) ]
    @@ (IF Truthy(menuItem.url) THEN [ url |-> menuItem.url[1] ] ELSE NoAttributes)
    @@ (IF Truthy(menuItem.description) THEN [ description |-> menuItem.description[1] ] ELSE NoAttributes)
    @@ (IF someOf(menuItem.xfn) THEN [ rel |-> join(menuItem.xfn[1]) ] ELSE NoAttributes)
    @@ (IF someOf(menuItem.classes) THEN [ className |-> join(menuItem.classes[1]) ] ELSE NoAttributes)

linkAttributes(menuItem) ==
    [ label |-> IF ~Truthy(menuItem.title.rendered) THEN NoTitle
                ELSE menuItem.title.rendered[1],
      opensInNewTab |-> (menuItem.target = Some("_blank")) ]
    @@ (IF Truthy(menuItem.url) THEN [ url |-> menuItem.url[1] ] ELSE NoAttributes)
    @@ (IF Truthy(menuItem.description)
        THEN [ description |-> menuItem.description[1] ] ELSE NoAttributes)
    @@ (IF someOf(menuItem.xfn)
        THEN [ rel |-> join(menuItem.xfn[1]) ] ELSE NoAttributes)
    @@ (IF someOf(menuItem.classes)
        THEN [ className |-> join(menuItem.classes[1]) ] ELSE NoAttributes)

RECURSIVE mapMenuItemsToBlocks(_)
mapMenuItemToBlock(node) ==
    IF node.item.type = "block"
    THEN LET parsed == parse(node.item.content[1].raw)
         IN  IF parsed = << >>
             THEN createBlock("core/freeform",
                              [ content |-> node.item.content[1] ], << >>)
             ELSE parsed[1]
    ELSE createBlock("core/navigation-link", linkAttributes(node.item),
                     IF Len(node.children) > 0
                     THEN mapMenuItemsToBlocks(node.children) ELSE << >>)

mapMenuItemsToBlocks(menuItems) ==
    [ i \in 1 .. Len(menuItems) |-> mapMenuItemToBlock(menuItems[i]) ]

\* menuItem.content.raw of a block item without content is a TypeError: the
\* mapper throws when it visits such a node (it does not visit the children
\* of a block node).
RECURSIVE mapThrows(_)
mapThrows(menuItems) ==
    \E i \in 1 .. Len(menuItems) :
        IF menuItems[i].item.type = "block"
        THEN menuItems[i].item.content = None
        ELSE mapThrows(menuItems[i].children)

\* convertMenuItemsToBlocks: null for an absent list.
convertMenuItemsToBlocks(menuItems) ==
    IF ~IsSome(menuItems) THEN None
    ELSE Some(mapMenuItemsToBlocks(createDataTree(menuItems[1])))

\* menuItemsToBlocks( menuItems ).innerBlocks of ./menu-items-to-blocks.
menuItemsToBlocks(menuItems) ==
    [ innerBlocks |-> IF ~IsSome(menuItems) THEN None
                      ELSE Some(mapMenuItemsToBlocks(createDataTree(menuItems[1]))) ]

(***************************************************************************)
(* Page Mapper: convertPagesToBlocks.                                      *)
(***************************************************************************)
\* Mutant: the label of an untitled page is left empty.
pageToBlock_NoFallback(page) ==
    createBlock("core/navigation-link",
                [ type |-> page.type, id |-> page.id, url |-> page.link,
                  label |-> page.title.rendered, opensInNewTab |-> FALSE ],
                << >>)

pageToBlock(page) ==
    createBlock("core/navigation-link",
                [ type |-> page.type, id |-> page.id, url |-> page.link,
                  label |-> IF page.title.rendered = "" THEN NoTitle
                            ELSE page.title.rendered,
                  opensInNewTab |-> FALSE ],
                << >>)

\* Mutant: an absent page list gives an empty list of blocks.
convertPagesToBlocks_NeverNull(pgs) ==
    IF ~IsSome(pgs) THEN Some(<< >>)
    ELSE Some([ i \in 1 .. Len(pgs[1]) |-> pageToBlock(pgs[1][i]) ])

convertPagesToBlocks(pgs) ==
    IF ~IsSome(pgs) THEN None
    ELSE Some([ i \in 1 .. Len(pgs[1]) |-> pageToBlock(pgs[1][i]) ])

(***************************************************************************)
(* The create-button predicate: getIsCreateButtonDisabled.  An option is   *)
(* None (nothing selected) or Some([ key |-> k ]) where k is one of the    *)
(* sentinel strings or the id of a menu.                                   *)
(***************************************************************************)
CREATE_EMPTY_OPTION_VALUE == Str("__CREATE_EMPTY__")
CREATE_FROM_PAGES_OPTION_VALUE == Str("__CREATE_FROM_PAGES__")
CREATE_PLACEHOLDER_VALUE == Str("__CREATE_PLACEHOLDER__")

\* The menu id of an option that names a menu, None (undefined) otherwise.
getSelectedMenu(selectedCreateOption) ==
    IF IsSome(selectedCreateOption) /\ selectedCreateOption[1].key[1] = "number"
    THEN Some(selectedCreateOption[1].key[2])
    ELSE None

\* Mutant: the pages option enables the button before the pages resolved.
getIsCreateButtonDisabled_PagesAlways(selectedCreateOption, hasResolvedPages, hasResolvedMenuItems) ==
    IF ~IsSome(selectedCreateOption) THEN TRUE
    ELSE LET optionKey == selectedCreateOption[1].key
         IN  IF optionKey = CREATE_PLACEHOLDER_VALUE THEN TRUE
             ELSE IF optionKey = CREATE_EMPTY_OPTION_VALUE THEN FALSE
             ELSE IF optionKey = CREATE_FROM_PAGES_OPTION_VALUE THEN FALSE
             ELSE getSelectedMenu(selectedCreateOption) = None
                  \/ ~hasResolvedMenuItems

\* Mutant: the "create empty" case is missing.
getIsCreateButtonDisabled_NoEmptyCase(selectedCreateOption, hasResolvedPages, hasResolvedMenuItems) ==
    IF ~IsSome(selectedCreateOption) THEN TRUE
    ELSE LET optionKey == selectedCreateOption[1].key
         IN  IF optionKey = CREATE_PLACEHOLDER_VALUE THEN TRUE
             ELSE IF optionKey = CREATE_FROM_PAGES_OPTION_VALUE /\ hasResolvedPages
                  THEN FALSE
             ELSE getSelectedMenu(selectedCreateOption) = None
                  \/ ~hasResolvedMenuItems

getIsCreateButtonDisabled(selectedCreateOption, hasResolvedPages, hasResolvedMenuItems) ==
    IF ~IsSome(selectedCreateOption) THEN TRUE
    ELSE LET optionKey == selectedCreateOption[1].key
         IN  IF optionKey = CREATE_PLACEHOLDER_VALUE THEN TRUE
             ELSE IF optionKey = CREATE_EMPTY_OPTION_VALUE THEN FALSE
             ELSE IF optionKey = CREATE_FROM_PAGES_OPTION_VALUE /\ hasResolvedPages
                  THEN FALSE
             ELSE getSelectedMenu(selectedCreateOption) = None
                  \/ ~hasResolvedMenuItems

(***************************************************************************)
(* NavigationPlaceholder: what one render reads through useSelect.         *)
(***************************************************************************)
hasSelectedMenu(sel) == sel # NoMenu

\* menuItems: getMenuItems( { menus: selectedMenu } ), undefined until resolved.
menuItemsOf(sel, st) ==
    IF hasSelectedMenu(sel) /\ st[sel] = "resolved"
    THEN Some(MenuItemsOf(sel)) ELSE None

hasResolvedMenuItemsOf(sel, st) ==
    IF hasSelectedMenu(sel) THEN st[sel] = "resolved" ELSE FALSE

\* Mutant: the items are read without their fetch being started.
requestMenuItems_Never(sel, st) == st

\* Reading getMenuItems for a menu that was never requested starts its fetch.
requestMenuItems(sel, st) ==
    IF hasSelectedMenu(sel) /\ st[sel] = "idle"
    THEN [ st EXCEPT ![sel] = "resolving" ] ELSE st

\* The values the handlers of one render close over.
Render(v, sel, st, pgs) ==
    [ variant |-> v, selectedMenu |-> sel, pages |-> pgs,
      menuItems |-> menuItemsOf(sel, st),
      hasResolvedMenuItems |-> hasResolvedMenuItemsOf(sel, st) ]

hasPages == pagesStatus = "resolved" /\ IsSome(pages) /\ Len(pages[1]) > 0
hasMenus == menusStatus = "resolved" /\ IsSome(menus) /\ Len(menus[1]) > 0
isLoading == pagesStatus = "resolving" \/ menusStatus = "resolving"

\* Mutant: the actions are rendered next to the spinner.
actionsOffered_WhileLoading ==
    { "empty" } \cup (IF hasMenus THEN { "menu" } ELSE {})
                \cup (IF hasPages THEN { "pages" } ELSE {})

\* The creation entry points the render shows: none next to the spinner,
\* else "Start empty", the menu dropdown if hasMenus, "Add all pages" if
\* hasPages.
actionsOffered ==
    IF isLoading THEN {}
    ELSE { "empty" } \cup (IF hasMenus THEN { "menu" } ELSE {})
                     \cup (IF hasPages THEN { "pages" } ELSE {})

(***************************************************************************)
(* onCreate( blocks, selectNavigationBlock ): the invocation is recorded   *)
(* with the handler that made it (path), the menu whose items it read      *)
(* (from), the menu the user has chosen by then (selected) and the number  *)
(* of clicks made so far (click).                                          *)
(***************************************************************************)
onCreate(log, path, from, blocks, select, g) ==
    Append(log, [ path |-> path, from |-> from, blocks |-> blocks,
                  select |-> select, selected |-> g.selected, click |-> g.click ])

\* Mutant: the items are mapped without building the tree first.
createFromMenu_Flat(c, log, path, g) ==
    LET blocks ==
            IF ~IsSome(c.menuItems) THEN None
            ELSE Some(mapMenuItemsToBlocks(
                     [ i \in 1 .. Len(c.menuItems[1]) |->
                           [ item |-> c.menuItems[1][i], children |-> << >> ] ]))
    IN  onCreate(log, path, c.selectedMenu, blocks, Some(TRUE), g)

createFromMenu(c, log, path, g) ==
    LET blocks == IF c.variant = 1
                  THEN convertMenuItemsToBlocks(c.menuItems)
                  ELSE menuItemsToBlocks(c.menuItems).innerBlocks
    IN  onCreate(log, path, c.selectedMenu, blocks, Some(TRUE), g)

\* Mutant: the return after createFromMenu() is missing.
onCreateFromMenu_NoReturn(c, creating, log, g) ==
    IF c.hasResolvedMenuItems
    THEN [ creating |-> TRUE, calls |-> createFromMenu(c, log, "menu", g) ]
    ELSE [ creating |-> TRUE, calls |-> log ]

\* Mutant: the block is created right away, resolved or not.
onCreateFromMenu_Always(c, creating, log, g) ==
    [ creating |-> creating, calls |-> createFromMenu(c, log, "menu", g) ]

onCreateFromMenu(c, creating, log, g) ==
    IF c.hasResolvedMenuItems
    THEN [ creating |-> creating, calls |-> createFromMenu(c, log, "menu", g) ]
    ELSE [ creating |-> TRUE, calls |-> log ]

\* Mutant: onCreate is called without a block list.
onCreateEmptyMenu_NoBlocks(log, g) ==
    onCreate(log, "empty", NoMenu, None, None, g)

onCreateEmptyMenu(log, g) ==
    onCreate(log, "empty", NoMenu, Some(<< >>), None, g)

onCreateAllPages(c, log, g) ==
    LET blocks == IF c.variant = 1
                  THEN convertPagesToBlocks(c.pages)
                  ELSE Some(<< createBlock("core/page-list", NoAttributes, << >>) >>)
    IN  onCreate(log, "pages", NoMenu, blocks, Some(TRUE), g)

\* The creation that was left pending runs once the items have resolved.
isCreationDue(c, creating) == creating /\ c.hasResolvedMenuItems

\* The body of the pending creation.
createPending(c, log, g) ==
    IF c.selectedMenu = NoMenu \/ c.menuItems = None
    THEN log
    ELSE onCreate(log, "effect", c.selectedMenu,
                  convertMenuItemsToBlocks(c.menuItems), Some(TRUE), g)

\* The effect run after a render: the pending creation, then the flag reset.
pendingCreationEffect(c, creating, log, g) ==
    IF isCreationDue(c, creating)
    THEN [ creating |-> FALSE, calls |-> createPending(c, log, g) ]
    ELSE [ creating |-> creating, calls |-> log ]

(***************************************************************************)
(* The placeholder as a state machine.  One action is one event handler    *)
(* or one store update, with the render and the effect that follow it.     *)
(***************************************************************************)
\* No conversion is under way.
\* The Page Mapper is not in use.
PagesIdle == pagesIn = None /\ pagesOut = None

\* The media-text block is not in use.
MediaIdle ==
    /\ temporaryMediaWidth = None
    /\ mediaWidth = 50
    /\ committed = FALSE
    /\ selectionEnabled = TRUE
    /\ lastResize = None

\* getBlockTemplate is not in use.
TemplateIdle ==
    /\ tplEnv = None
    /\ tplPc = "idle"
    /\ tempCwd = None
    /\ tempDirs = {}
    /\ tplResult = None

OthersIdle == PagesIdle /\ MediaIdle /\ TemplateIdle

ConversionIdle ==
    /\ treeItems = << >>
    /\ treeOut = None
    /\ blocksOut = None
    /\ convStack = << >>
    /\ convVisits = 0
    /\ itemIn = None
    /\ itemOut = None

ButtonIdle ==
    /\ btnOption = None
    /\ btnPages = FALSE
    /\ btnItems = FALSE
    /\ btnDisabled = TRUE
    /\ btnPrev = None

Init ==
    /\ variant \in { 1, 2 }
    /\ pagesStatus = "resolving"
    /\ pages = None
    /\ menusStatus = "resolving"
    /\ menus = None
    /\ itemsStatus = [ m \in MenuIds |-> "idle" ]
    /\ selectedMenu = NoMenu
    /\ isCreatingFromMenu = FALSE
    /\ calls = << >>
    /\ clickLog = << >>
    /\ ButtonIdle
    /\ ConversionIdle
    /\ OthersIdle

\* The page list fetch resolves.
ResolvePages ==
    /\ pagesStatus = "resolving"
    /\ \E ps \in PageLists : pages' = Some(ps)
    /\ pagesStatus' = "resolved"
    /\ UNCHANGED << variant, menusStatus, menus, itemsStatus, selectedMenu,
                    isCreatingFromMenu, calls, clickLog, btnVars, pureVars >>

\* Mutant: the first menu becomes the selection when the menus resolve.
ResolveMenus_Default ==
    /\ menusStatus = "resolving"
    /\ \E k \in 0 .. NumMenus :
           /\ menus' = Some(MenuList(k))
           /\ selectedMenu' = IF k > 0 THEN MenuList(k)[1].id ELSE selectedMenu
    /\ menusStatus' = "resolved"
    /\ UNCHANGED << variant, pagesStatus, pages, itemsStatus,
                    isCreatingFromMenu, calls, clickLog, btnVars, pureVars >>

\* The menu list fetch resolves.
ResolveMenus ==
    /\ menusStatus = "resolving"
    /\ \E k \in 0 .. NumMenus : menus' = Some(MenuList(k))
    /\ menusStatus' = "resolved"
    /\ UNCHANGED << variant, pagesStatus, pages, itemsStatus, selectedMenu,
                    isCreatingFromMenu, calls, clickLog, btnVars, pureVars >>

\* The fetch of the items of menu m resolves; the component renders again.
ResolveMenuItems(m) ==
    /\ itemsStatus[m] = "resolving"
    /\ LET st == [ itemsStatus EXCEPT ![m] = "resolved" ]
           c  == Render(variant, selectedMenu, st, pages)
           g  == [ selected |-> selectedMenu, click |-> Len(clickLog) ]
           e  == pendingCreationEffect(c, isCreatingFromMenu, calls, g)
       IN  /\ itemsStatus' = st
           /\ isCreatingFromMenu' = e.creating
           /\ calls' = e.calls
    /\ UNCHANGED << variant, pagesStatus, pages, menusStatus, menus,
                    selectedMenu, clickLog, btnVars, pureVars >>

\* The user clicks the entry of menu m in the "Existing menu" dropdown:
\* setSelectedMenu( menu.id ); onCreateFromMenu(); then the next render.
ClickMenu(m) ==
    /\ Len(clickLog) < MaxClicks
    /\ "menu" \in actionsOffered
    /\ \E i \in 1 .. Len(menus[1]) : menus[1][i].id = m
    /\ LET c  == Render(variant, selectedMenu, itemsStatus, pages)
           g  == [ selected |-> m, click |-> Len(clickLog) + 1 ]
           h  == onCreateFromMenu(c, isCreatingFromMenu, calls, g)
           st == requestMenuItems(m, itemsStatus)
           c2 == Render(variant, m, st, pages)
           e  == pendingCreationEffect(c2, h.creating, h.calls, g)
       IN  /\ selectedMenu' = m
           /\ itemsStatus' = st
           /\ isCreatingFromMenu' = e.creating
           /\ calls' = e.calls
    /\ clickLog' = Append(clickLog, Num(m))
    /\ UNCHANGED << variant, pagesStatus, pages, menusStatus, menus, btnVars, pureVars >>

\* The user clicks "Start empty".
ClickEmpty ==
    /\ Len(clickLog) < MaxClicks
    /\ "empty" \in actionsOffered
    /\ calls' = onCreateEmptyMenu(calls, [ selected |-> selectedMenu,
                                           click |-> Len(clickLog) + 1 ])
    /\ clickLog' = Append(clickLog, Str("empty"))
    /\ UNCHANGED << variant, pagesStatus, pages, menusStatus, menus, itemsStatus,
                    selectedMenu, isCreatingFromMenu, btnVars, pureVars >>

\* The user clicks "Add all pages".
ClickAllPages ==
    /\ Len(clickLog) < MaxClicks
    /\ "pages" \in actionsOffered
    /\ calls' = onCreateAllPages(Render(variant, selectedMenu, itemsStatus, pages),
                                 calls, [ selected |-> selectedMenu,
                                          click |-> Len(clickLog) + 1 ])
    /\ clickLog' = Append(clickLog, Str("pages"))
    /\ UNCHANGED << variant, pagesStatus, pages, menusStatus, menus, itemsStatus,
                    selectedMenu, isCreatingFromMenu, btnVars, pureVars >>

Next ==
    \/ ResolvePages
    \/ ResolveMenus
    \/ \E m \in MenuIds : ResolveMenuItems(m)
    \/ \E m \in MenuIds : ClickMenu(m)
    \/ ClickEmpty
    \/ ClickAllPages

Spec == Init /\ [][Next]_vars

\* Every fetch that was started resolves.
LiveSpec ==
    /\ Spec
    /\ WF_vars(ResolvePages)
    /\ WF_vars(ResolveMenus)
    /\ \A m \in MenuIds : WF_vars(ResolveMenuItems(m))

(***************************************************************************)
(* The create-button predicate over all its inputs: an option is selected, *)
(* a fetch resolves, and the button is rendered again each time.           *)
(***************************************************************************)
OptionKeys ==
    { CREATE_PLACEHOLDER_VALUE, CREATE_EMPTY_OPTION_VALUE,
      CREATE_FROM_PAGES_OPTION_VALUE, Str("__OTHER__") }
    \cup { Num(n) : n \in 1 .. MaxOptionMenu }

CreateOptions == { None } \cup { Some([ key |-> k ]) : k \in OptionKeys }

ControllerIdle ==
    /\ variant = 1
    /\ pagesStatus = "resolving"
    /\ pages = None
    /\ menusStatus = "resolving"
    /\ menus = None
    /\ itemsStatus = [ m \in MenuIds |-> "idle" ]
    /\ selectedMenu = NoMenu
    /\ isCreatingFromMenu = FALSE
    /\ calls = << >>
    /\ clickLog = << >>

InitButton ==
    /\ ControllerIdle
    /\ ConversionIdle
    /\ OthersIdle
    /\ btnOption = None
    /\ btnPages \in BOOLEAN
    /\ btnItems \in BOOLEAN
    /\ btnDisabled = getIsCreateButtonDisabled(btnOption, btnPages, btnItems)
    /\ btnPrev = None

RenderButton ==
    /\ btnDisabled' = getIsCreateButtonDisabled(btnOption', btnPages', btnItems')
    /\ btnPrev' = Some(btnDisabled)
    /\ UNCHANGED << ctlVars, pureVars >>

SelectCreateOption(o) ==
    /\ o # btnOption
    /\ btnOption' = o
    /\ btnItems' \in BOOLEAN
    /\ UNCHANGED btnPages
    /\ RenderButton

ButtonPagesResolve ==
    /\ ~btnPages
    /\ btnPages' = TRUE
    /\ UNCHANGED << btnOption, btnItems >>
    /\ RenderButton

ButtonItemsResolve ==
    /\ ~btnItems
    /\ btnItems' = TRUE
    /\ UNCHANGED << btnOption, btnPages >>
    /\ RenderButton

NextButton ==
    \/ \E o \in CreateOptions : SelectCreateOption(o)
    \/ ButtonPagesResolve
    \/ ButtonItemsResolve

SpecButton == InitButton /\ [][NextButton]_vars

(***************************************************************************)
(* The conversion of a flat menu item list over all its inputs: item i has *)
(* id i, any parent (0, an id of the list, its own id, an id that is not   *)
(* in the list) and is a link or a block item.                             *)
(***************************************************************************)
ValidMarkup == "<!-- wp:search /-->"
ItemTypes == { "custom", "block" }

TreeItem(id, parent, type) ==
    MenuItemRecord(id, parent, type, "T", "/u",
                   IF type = "block" THEN Some([ raw |-> ValidMarkup ]) ELSE None)

TreeInputs ==
    UNION { { [ i \in 1 .. n |-> TreeItem(i, ps[i], ts[i]) ] :
                ps \in [ 1 .. n -> 0 .. MaxItems + 1 ], ts \in [ 1 .. n -> ItemTypes ] } :
            n \in 0 .. MaxItems }

\* What mapMenuItemsToBlocks does with a tree: it throws or returns blocks.
mapOutcome(nodes) ==
    IF mapThrows(nodes) THEN [ threw |-> TRUE, blocks |-> << >> ]
    ELSE [ threw |-> FALSE, blocks |-> mapMenuItemsToBlocks(nodes) ]

InitTree ==
    /\ ControllerIdle
    /\ ButtonIdle
    /\ treeItems \in TreeInputs
    /\ treeOut = None
    /\ blocksOut = None
    /\ convStack = << >>
    /\ convVisits = 0
    /\ itemIn = None
    /\ itemOut = None
    /\ OthersIdle

\* const menuTree = createDataTree( menuItems );
BuildTree ==
    /\ treeOut = None
    /\ treeOut' = Some(createDataTree(treeItems))
    /\ UNCHANGED << ctlVars, btnVars, treeItems, blocksOut, convStack,
                    convVisits, itemVars, otherVars >>

\* Mutant: the mapper takes the nodes out of the tree it is given.
MapTree_ConsumesInput ==
    /\ treeOut # None
    /\ blocksOut = None
    /\ blocksOut' = Some(mapOutcome(treeOut[1]))
    /\ treeOut' = Some(<< >>)
    /\ UNCHANGED << ctlVars, btnVars, treeItems, convStack, convVisits,
                    itemVars, otherVars >>

\* return mapMenuItemsToBlocks( menuTree );
MapTree ==
    /\ treeOut # None
    /\ blocksOut = None
    /\ blocksOut' = Some(mapOutcome(treeOut[1]))
    /\ UNCHANGED << ctlVars, btnVars, treeItems, treeOut, convStack,
                    convVisits, itemVars, otherVars >>

NextTree == BuildTree \/ MapTree

SpecTree == InitTree /\ [][NextTree]_vars

(***************************************************************************)
(* The conversion one call at a time.  convStack holds the ids of the      *)
(* nodes still to be built and mapped, first the roots; a step takes the   *)
(* first id and puts the ids of its children in front of the rest, as the  *)
(* recursion of treeNode and of mapMenuItemsToBlocks does.  convVisits     *)
(* counts the calls; a conversion that has made more calls than the list   *)
(* has items is not followed further.                                      *)
(***************************************************************************)
idsOf(menuItems) == [ i \in 1 .. Len(menuItems) |-> menuItems[i].id ]
rootIds(menuItems) == idsOf(SelectSeq(menuItems, LAMBDA item : IsRootItem(menuItems, item)))
childIds(menuItems, id) == idsOf(SelectSeq(menuItems, LAMBDA c : c.parent = id))

InitConvert ==
    /\ ControllerIdle
    /\ ButtonIdle
    /\ treeItems \in TreeInputs
    /\ treeOut = None
    /\ blocksOut = None
    /\ convStack = rootIds(treeItems)
    /\ convVisits = 0
    /\ itemIn = None
    /\ itemOut = None
    /\ OthersIdle

VisitNode ==
    /\ convStack # << >>
    /\ convVisits <= Len(treeItems)
    /\ convVisits' = convVisits + 1
    /\ convStack' = childIds(treeItems, Head(convStack)) \o Tail(convStack)
    /\ UNCHANGED << ctlVars, btnVars, treeItems, treeOut, blocksOut, itemVars,
                    otherVars >>

NextConvert == VisitNode

SpecConvert == InitConvert /\ [][NextConvert]_vars /\ WF_vars(VisitNode)

(***************************************************************************)
(* The Block Mapper over one menu item without children, for every         *)
(* combination of absent, empty and filled fields.                         *)
(***************************************************************************)
RenderedValues == { None, Some(""), Some("Home") }
UrlValues == { None, Some(""), Some("/u") }
DescriptionValues == { None, Some(""), Some("about") }
TargetValues == { None, Some(""), Some("_blank"), Some("_self") }
TokenLists == { None, Some(<< >>), Some(<< << >> >>), Some(<< << "a" >> >>), Some(<< << "a" >>, << >> >>), Some(<< << "a" >>, << "b" >> >>) }
ContentValues == { None, Some([ raw |-> "" ]), Some([ raw |-> "<p>x</p>" ]), Some([ raw |-> ValidMarkup ]) }

LinkItems ==
    { [ id |-> 1, parent |-> 0, type |-> "custom", title |-> [ rendered |-> r ],
        url |-> u, description |-> d, target |-> t, xfn |-> x, classes |-> c,
        content |-> None ] :
      r \in RenderedValues, u \in UrlValues, d \in DescriptionValues,
      t \in TargetValues, x \in TokenLists, c \in TokenLists }

BlockItems ==
    { [ id |-> 1, parent |-> 0, type |-> "block", title |-> [ rendered |-> r ],
        url |-> u, description |-> None, target |-> None, xfn |-> None,
        classes |-> None, content |-> c ] :
      r \in RenderedValues, u \in UrlValues, c \in ContentValues }

ItemInputs == LinkItems \cup BlockItems

InitItem ==
    /\ ControllerIdle
    /\ ButtonIdle
    /\ treeItems = << >>
    /\ treeOut = None
    /\ blocksOut = None
    /\ convStack = << >>
    /\ convVisits = 0
    /\ itemIn \in { Some(item) : item \in ItemInputs }
    /\ itemOut = None
    /\ OthersIdle

\* mapMenuItemsToBlocks( [ menuItem ] )
MapItem ==
    /\ itemIn # None
    /\ itemOut = None
    /\ itemOut' = Some(mapOutcome(<< [ item |-> itemIn[1], children |-> << >> ] >>))
    /\ UNCHANGED << ctlVars, btnVars, treeVars, itemIn, otherVars >>

NextItem == MapItem

SpecItem == InitItem /\ [][NextItem]_vars

(***************************************************************************)
(* The Page Mapper over an absent page list and over every list of up to   *)
(* MaxPages pages, titled or not.                                          *)
(***************************************************************************)
PageInputs ==
    UNION { [ 1 .. n -> { PageRecord(id, title, link) :
                              id \in { 5, 6 }, title \in { "", "About" },
                              link \in { "/about", "/contact" } } ] :
            n \in 0 .. MaxPages }

InitPages ==
    /\ ControllerIdle
    /\ ButtonIdle
    /\ ConversionIdle
    /\ MediaIdle
    /\ TemplateIdle
    /\ pagesIn \in { None } \cup { Some(ps) : ps \in PageInputs }
    /\ pagesOut = None

\* convertPagesToBlocks( pages )
ConvertPages ==
    /\ pagesOut = None
    /\ pagesOut' = Some([ value |-> convertPagesToBlocks(pagesIn) ])
    /\ UNCHANGED << ctlVars, btnVars, treeVars, itemVars, pagesIn, mtVars, tplVars >>

NextPages == ConvertPages

SpecPages == InitPages /\ [][NextPages]_vars

(***************************************************************************)
(* The media-text block of packages/block-library/src/media-text: the      *)
(* resize callbacks of MediaContainer (onResizeStart, onResize,            *)
(* onResizeStop) call toggleSelection and the onWidthChange and            *)
(* commitWidthChange of MediaTextEdit with the width read from the         *)
(* element.  The callbacks are taken in any order and with any width.      *)
(***************************************************************************)
WIDTH_CONSTRAINT_PERCENTAGE == 15

MathMax(a, b) == IF a >= b THEN a ELSE b
MathMin(a, b) == IF a <= b THEN a ELSE b

\* Mutant: only the upper limit is applied.
applyWidthConstraints_NoLowerLimit(width) ==
    MathMin(width, 100 - WIDTH_CONSTRAINT_PERCENTAGE)

applyWidthConstraints(width) ==
    MathMax(WIDTH_CONSTRAINT_PERCENTAGE,
            MathMin(width, 100 - WIDTH_CONSTRAINT_PERCENTAGE))

\* this.setState( { mediaWidth: applyWidthConstraints( width ) } )
onWidthChange(temporary, attribute, width) ==
    [ temporaryMediaWidth |-> Some(applyWidthConstraints(width)),
      mediaWidth |-> attribute ]

\* Mutant: the temporary width is kept after the attribute is written.
commitWidthChange_KeepsTemporary(temporary, attribute, width) ==
    [ temporaryMediaWidth |-> temporary,
      mediaWidth |-> applyWidthConstraints(width) ]

\* setAttributes( { mediaWidth: ... } ); this.setState( { mediaWidth: null } )
commitWidthChange(temporary, attribute, width) ==
    [ temporaryMediaWidth |-> None,
      mediaWidth |-> applyWidthConstraints(width) ]

\* `${ temporaryMediaWidth || mediaWidth }%`
displayedWidth ==
    IF temporaryMediaWidth # None /\ temporaryMediaWidth[1] # 0
    THEN temporaryMediaWidth[1] ELSE mediaWidth

\* The widths parseInt( elt.style.width ) gives: far off, zero, negative,
\* the middle, and every width around the two limits.
Widths ==
    { 0 - 100, 0 - 1, 0, 50, 100, 200 }
        \cup (WIDTH_CONSTRAINT_PERCENTAGE - NearEdge .. WIDTH_CONSTRAINT_PERCENTAGE + NearEdge)
        \cup (100 - WIDTH_CONSTRAINT_PERCENTAGE - NearEdge .. 100 - WIDTH_CONSTRAINT_PERCENTAGE + NearEdge)

\* The mediaWidth the block has when it is mounted.
AttributeWidths == { 10, 50, 100 }

InitMedia ==
    /\ ControllerIdle
    /\ ButtonIdle
    /\ ConversionIdle
    /\ PagesIdle
    /\ TemplateIdle
    /\ temporaryMediaWidth = None
    /\ mediaWidth \in AttributeWidths
    /\ committed = FALSE
    /\ selectionEnabled = TRUE
    /\ lastResize = None

onResizeStart ==
    /\ selectionEnabled' = FALSE
    /\ lastResize' = Some([ op |-> "start", width |-> 0 ])
    /\ UNCHANGED << ctlVars, btnVars, treeVars, itemVars, pageVars, tplVars,
                    temporaryMediaWidth, mediaWidth, committed >>

onResize(width) ==
    /\ LET r == onWidthChange(temporaryMediaWidth, mediaWidth, width)
       IN  /\ temporaryMediaWidth' = r.temporaryMediaWidth
           /\ mediaWidth' = r.mediaWidth
    /\ lastResize' = Some([ op |-> "resize", width |-> width ])
    /\ UNCHANGED << ctlVars, btnVars, treeVars, itemVars, pageVars, tplVars,
                    committed, selectionEnabled >>

onResizeStop(width) ==
    /\ selectionEnabled' = TRUE
    /\ LET r == commitWidthChange(temporaryMediaWidth, mediaWidth, width)
       IN  /\ temporaryMediaWidth' = r.temporaryMediaWidth
           /\ mediaWidth' = r.mediaWidth
    /\ committed' = TRUE
    /\ lastResize' = Some([ op |-> "stop", width |-> width ])
    /\ UNCHANGED << ctlVars, btnVars, treeVars, itemVars, pageVars, tplVars >>

NextMedia ==
    \/ onResizeStart
    \/ \E width \in Widths : onResize(width)
    \/ \E width \in Widths : onResizeStop(width)

SpecMedia == InitMedia /\ [][NextMedia]_vars

(***************************************************************************)
(* getBlockTemplate of packages/create-block/lib/templates.js, one await   *)
(* at a time.  tplEnv holds the template name and what the outside does    *)
(* in this run: whether npm view finds the package, whether mkdtemp and    *)
(* npm install succeed, what require() of the package gives (None when it  *)
(* throws) and whether the output templates can be read.                   *)
(***************************************************************************)
predefinedBlockTemplates == { "es5", "esnext" }
TemplateNames == predefinedBlockTemplates \cup { "my-template" }
TempDir == "wp-create-block-1"

TemplateModules ==
    { None } \cup
    { Some([ defaultValues |-> dv, templatesPath |-> tp ]) :
        dv \in { "undefined", "object", "string", "null" },
        tp \in { "undefined", "", "/templates" } }

\* const { defaultValues = {}, ... }; isObject( defaultValues )
isObject(defaultValues) == defaultValues \in { "undefined", "object" }

\* ! isObject( defaultValues ) || ! templatesPath
invalidDefinition(module) ==
    ~isObject(module.defaultValues) \/ module.templatesPath \in { "undefined", "" }

TemplateEnvs ==
    [ name : TemplateNames, exists : BOOLEAN, mkdtempOk : BOOLEAN,
      installOk : BOOLEAN, module : TemplateModules, outputsOk : BOOLEAN ]

InitTemplate ==
    /\ ControllerIdle
    /\ ButtonIdle
    /\ ConversionIdle
    /\ PagesIdle
    /\ MediaIdle
    /\ tplEnv \in { Some(e) : e \in TemplateEnvs }
    /\ tplPc = "start"
    /\ tempCwd = None
    /\ tempDirs \in { {}, { "other" } }
    /\ tplResult = None

\* Lines 77-94: a predefined template is returned with its output
\* templates; a name npm does not know is refused.
TplLookup ==
    /\ tplPc = "start"
    /\ IF tplEnv[1].name \in predefinedBlockTemplates
       THEN /\ tplResult' = IF tplEnv[1].outputsOk THEN Some("returned") ELSE Some("Error")
            /\ tplPc' = "done"
       ELSE IF ~tplEnv[1].exists
       THEN /\ tplResult' = Some("CLIError")
            /\ tplPc' = "done"
       ELSE /\ tplResult' = tplResult
            /\ tplPc' = "mkdtemp"
    /\ UNCHANGED << ctlVars, btnVars, treeVars, itemVars, pageVars, mtVars,
                    tplEnv, tempCwd, tempDirs >>

\* tempCwd = await mkdtemp( join( tmpdir(), 'wp-create-block-' ) )
TplMkdtemp ==
    /\ tplPc = "mkdtemp"
    /\ IF tplEnv[1].mkdtempOk
       THEN /\ tempCwd' = Some(TempDir)
            /\ tempDirs' = tempDirs \cup { TempDir }
            /\ tplPc' = "install"
       ELSE /\ UNCHANGED << tempCwd, tempDirs >>
            /\ tplPc' = "catch"
    /\ UNCHANGED << ctlVars, btnVars, treeVars, itemVars, pageVars, mtVars,
                    tplEnv, tplResult >>

\* await command( `npm install ${ templateName } --no-save`, ... )
TplInstall ==
    /\ tplPc = "install"
    /\ tplPc' = IF tplEnv[1].installOk THEN "require" ELSE "catch"
    /\ UNCHANGED << ctlVars, btnVars, treeVars, itemVars, pageVars, mtVars,
                    tplEnv, tempCwd, tempDirs, tplResult >>

\* require( require.resolve( ... ) ) and the test of the definition
TplRequire ==
    /\ tplPc = "require"
    /\ tplPc' = IF tplEnv[1].module = None THEN "catch"
                ELSE IF invalidDefinition(tplEnv[1].module[1]) THEN "catch"
                ELSE "outputs"
    /\ UNCHANGED << ctlVars, btnVars, treeVars, itemVars, pageVars, mtVars,
                    tplEnv, tempCwd, tempDirs, tplResult >>

\* return { defaultValues, outputTemplates: await getOutputTemplates( ... ) }
TplOutputs ==
    /\ tplPc = "outputs"
    /\ IF tplEnv[1].outputsOk
       THEN tplResult' = Some("returned") /\ tplPc' = "finally"
       ELSE tplResult' = tplResult /\ tplPc' = "catch"
    /\ UNCHANGED << ctlVars, btnVars, treeVars, itemVars, pageVars, mtVars,
                    tplEnv, tempCwd, tempDirs >>

\* catch ( error ) { throw new CLIError( ... ) }
TplCatch ==
    /\ tplPc = "catch"
    /\ tplResult' = Some("CLIError")
    /\ tplPc' = "finally"
    /\ UNCHANGED << ctlVars, btnVars, treeVars, itemVars, pageVars, mtVars,
                    tplEnv, tempCwd, tempDirs >>

\* Mutant: the temporary directory is left behind.
TplFinally_NoCleanup ==
    /\ tplPc = "finally"
    /\ tplPc' = "done"
    /\ UNCHANGED << ctlVars, btnVars, treeVars, itemVars, pageVars, mtVars,
                    tplEnv, tempCwd, tempDirs, tplResult >>

\* finally { if ( tempCwd ) { rimraf( tempCwd ); } }
TplFinally ==
    /\ tplPc = "finally"
    /\ tempDirs' = IF tempCwd # None THEN tempDirs \ { tempCwd[1] } ELSE tempDirs
    /\ tplPc' = "done"
    /\ UNCHANGED << ctlVars, btnVars, treeVars, itemVars, pageVars, mtVars,
                    tplEnv, tempCwd, tplResult >>

NextTemplate ==
    \/ TplLookup
    \/ TplMkdtemp
    \/ TplInstall
    \/ TplRequire
    \/ TplOutputs
    \/ TplCatch
    \/ TplFinally

SpecTemplate == InitTemplate /\ [][NextTemplate]_vars

(***************************************************************************)
(* Properties.                                                             *)
(***************************************************************************)
MenuPaths == { "menu", "effect" }
LastCall == calls[Len(calls)]
PendingUnresolved ==
    /\ isCreatingFromMenu
    /\ selectedMenu # NoMenu
    /\ itemsStatus[selectedMenu] # "resolved"

\* C1: once the user has selected menu B after menu A, every invocation of
\* the creation callback from the menu path is built from the items of the
\* menu selected by then (B), never from those of the menu selected before.
C1_OnlyCurrentMenuItems ==
    \A i \in 1 .. Len(calls) :
        calls[i].path \in MenuPaths => calls[i].from = calls[i].selected

C3_NoRequestWhilePending ==
    [][PendingUnresolved => clickLog' = clickLog]_vars

\* C4: the create button is disabled when no option is selected, when the
\* placeholder option is selected, when a menu is selected whose items have
\* not resolved, and when the pages option is selected before the pages
\* have resolved.
C4_DisabledCases ==
    ( \/ btnOption = None
      \/ btnOption = Some([ key |-> CREATE_PLACEHOLDER_VALUE ])
      \/ (\E n \in 1 .. MaxOptionMenu :
              btnOption = Some([ key |-> Num(n) ]) /\ ~btnItems)
      \/ (btnOption = Some([ key |-> CREATE_FROM_PAGES_OPTION_VALUE ])
              /\ ~btnPages) )
    => btnDisabled = TRUE

C4_Witness ==
    /\ btnOption = Some([ key |-> CREATE_FROM_PAGES_OPTION_VALUE ])
    /\ ~btnPages
    /\ btnItems
    /\ btnDisabled
    /\ btnPrev = Some(FALSE)

\* C5: with the "create empty" option selected the create button is
\* enabled, whatever hasResolvedPages and hasResolvedMenuItems are.
C5_EmptyEnabled ==
    btnOption = Some([ key |-> CREATE_EMPTY_OPTION_VALUE ]) => btnDisabled = FALSE

C5_Witness ==
    /\ btnOption = Some([ key |-> CREATE_EMPTY_OPTION_VALUE ])
    /\ ~btnPages
    /\ ~btnItems
    /\ btnPrev = Some(TRUE)
    /\ ~btnDisabled

C9_EmptyImmediate ==
    [][ ( /\ Len(clickLog') = Len(clickLog) + 1
          /\ clickLog'[Len(clickLog')] = Str("empty") )
        => ( /\ Len(calls') = Len(calls) + 1
             /\ SubSeq(calls', 1, Len(calls)) = calls
             /\ calls'[Len(calls')].path = "empty"
             /\ calls'[Len(calls')].blocks = Some(<< >>)
             /\ isCreatingFromMenu' = isCreatingFromMenu
             /\ itemsStatus' = itemsStatus ) ]_vars

C9_Witness ==
    /\ Len(calls) >= 1
    /\ LastCall.path = "empty"
    /\ LastCall.click = Len(clickLog)
    /\ PendingUnresolved

\* The navigation-link descriptor of one page.
IsPageLink(block, page) ==
    /\ block.name = "core/navigation-link"
    /\ block.attributes =
           [ type |-> page.type, id |-> page.id, url |-> page.link,
             label |-> IF page.title.rendered = "" THEN "(no title)"
                       ELSE page.title.rendered,
             opensInNewTab |-> FALSE ]
    /\ block.innerBlocks = << >>

IsPageMapperOutput(blocks) ==
    /\ IsSome(blocks)
    /\ IsSome(pages)
    /\ Len(blocks[1]) = Len(pages[1])
    /\ \A j \in 1 .. Len(pages[1]) : IsPageLink(blocks[1][j], pages[1][j])

\* C10 as stated: every "Add all pages" click passes the Page Mapper's
\* output over the fetched pages, with selectAfterInsert = true.
C10_PagesMapped ==
    \A i \in 1 .. Len(calls) :
        calls[i].path = "pages" =>
            /\ calls[i].select = Some(TRUE)
            /\ IsPageMapperOutput(calls[i].blocks)

\* C10 amended: selectAfterInsert = true in both versions of the component;
\* the first passes the Page Mapper's output over the fetched pages, the
\* second a single core/page-list block.
C10_PagesByVariant ==
    \A i \in 1 .. Len(calls) :
        calls[i].path = "pages" =>
            /\ calls[i].select = Some(TRUE)
            /\ variant = 1 => IsPageMapperOutput(calls[i].blocks)
            /\ variant = 2 =>
                   /\ IsSome(calls[i].blocks)
                   /\ Len(calls[i].blocks[1]) = 1
                   /\ calls[i].blocks[1][1].name = "core/page-list"

C10_Witness ==
    /\ variant = 1
    /\ IsSome(pages)
    /\ Len(pages[1]) = 2
    /\ Len(calls) >= 1
    /\ LastCall.path = "pages"
    /\ Len(LastCall.blocks[1]) = 2

\* C11 as stated: when the fetches have completed and the user has clicked
\* nothing, the first menu is selected if a menu exists, else nothing is.
C11_DefaultIsFirstMenu ==
    (~isLoading /\ clickLog = << >>) =>
        IF hasMenus THEN selectedMenu = menus[1][1].id
        ELSE selectedMenu = NoMenu

\* C11 amended: the completion of the fetches selects nothing; the
\* selection is empty until the user clicks the entry of a menu.
C11_NoDefaultSelection ==
    (\A k \in 1 .. Len(clickLog) : clickLog[k][1] # "number")
        => selectedMenu = NoMenu

C11_Witness ==
    /\ ~isLoading
    /\ hasMenus
    /\ Len(menus[1]) = 2
    /\ Len(clickLog) = 1
    /\ clickLog[1] = Str("empty")
    /\ selectedMenu = NoMenu

\* C12: one selection at most; the menu items the component reads are
\* those of the selected menu, whose fetch has been started; with no menu
\* selected no fetch of menu items was started, menuItems is undefined and
\* hasResolvedMenuItems is false; only menus the user selected are fetched.
C12_FetchKeyedBySelection ==
    LET c == Render(variant, selectedMenu, itemsStatus, pages)
    IN  /\ selectedMenu \in MenuIds \cup { NoMenu }
        /\ selectedMenu = NoMenu =>
               /\ \A m \in MenuIds : itemsStatus[m] = "idle"
               /\ c.menuItems = None
               /\ ~c.hasResolvedMenuItems
        /\ selectedMenu # NoMenu =>
               /\ itemsStatus[selectedMenu] # "idle"
               /\ c.hasResolvedMenuItems <=> itemsStatus[selectedMenu] = "resolved"
               /\ c.menuItems = IF itemsStatus[selectedMenu] = "resolved"
                                THEN Some(MenuItemsOf(selectedMenu)) ELSE None
        /\ \A m \in MenuIds :
               itemsStatus[m] # "idle" =>
                   \E k \in 1 .. Len(clickLog) : clickLog[k] = Num(m)

C12_Witness ==
    /\ selectedMenu = 2
    /\ itemsStatus[1] = "resolved"
    /\ itemsStatus[2] = "resolving"
    /\ Render(variant, selectedMenu, itemsStatus, pages).menuItems = None

(***************************************************************************)
(* Properties of the conversion.                                           *)
(***************************************************************************)
\* The ids of the nodes of a tree, parents before their children.
RECURSIVE TreeIds(_)
TreeIds(nodes) ==
    IF nodes = << >> THEN << >>
    ELSE << nodes[1].item.id >> \o TreeIds(nodes[1].children)
                                \o TreeIds(Tail(nodes))

\* The nodes of a tree, at every level.
RECURSIVE TreeNodes(_)
TreeNodes(nodes) ==
    IF nodes = << >> THEN << >>
    ELSE << nodes[1] >> \o TreeNodes(nodes[1].children) \o TreeNodes(Tail(nodes))

SeqRange(q) == { q[i] : i \in 1 .. Len(q) }
Increasing(q) == \A i, j \in 1 .. Len(q) : i < j => q[i] < q[j]
NodeIds(nodes) == [ i \in 1 .. Len(nodes) |-> nodes[i].item.id ]

\* Following the parents of item id leads out of the list within fuel steps.
RECURSIVE LeadsToRoot(_, _, _)
LeadsToRoot(items, id, fuel) ==
    \/ id \notin 1 .. Len(items)
    \/ fuel > 0 /\ LeadsToRoot(items, items[id].parent, fuel - 1)

Acyclic(items) == \A i \in 1 .. Len(items) : LeadsToRoot(items, i, Len(items))
IsDangling(items, i) ==
    items[i].parent # 0 /\ items[i].parent \notin 1 .. Len(items)

\* C13: for a list without cyclic parent references the tree holds as many
\* nodes (roots and descendants) as the list has items, each id once.
C13_Conservation ==
    (treeOut # None /\ Acyclic(treeItems)) =>
        LET ids == TreeIds(treeOut[1])
        IN  /\ Len(ids) = Len(treeItems)
            /\ SeqRange(ids) = 1 .. Len(treeItems)

C13_Witness ==
    /\ treeOut # None
    /\ Len(treeItems) = 3
    /\ treeItems[1].parent = 2
    /\ treeItems[2].parent = 4
    /\ treeItems[3].parent = 1
    /\ Len(treeOut[1]) = 1

\* C14: the children of every node are exactly the items whose parent is
\* the node's id, and siblings, roots included, keep the order of the list.
C14_NestingAndOrder ==
    treeOut # None =>
        /\ Increasing(NodeIds(treeOut[1]))
        /\ \A k \in 1 .. Len(TreeNodes(treeOut[1])) :
               LET node == TreeNodes(treeOut[1])[k]
                   kids == NodeIds(node.children)
               IN  /\ Increasing(kids)
                   /\ SeqRange(kids) =
                          { i \in 1 .. Len(treeItems) :
                                treeItems[i].parent = node.item.id }

C14_Witness ==
    /\ treeOut # None
    /\ Len(treeItems) = 3
    /\ treeItems[1].parent = 2
    /\ treeItems[2].parent = 0
    /\ treeItems[3].parent = 2
    /\ NodeIds(treeOut[1]) = << 2 >>
    /\ NodeIds(treeOut[1][1].children) = << 1, 3 >>

\* C15: an item whose parent is the id of no item of the list is a root of
\* the tree.
C15_DanglingIsRoot ==
    treeOut # None =>
        \A i \in 1 .. Len(treeItems) :
            IsDangling(treeItems, i) => i \in SeqRange(NodeIds(treeOut[1]))

C15_Witness ==
    /\ treeOut # None
    /\ Len(treeItems) = 2
    /\ treeItems[1].parent = 0
    /\ treeItems[2].parent = 4
    /\ NodeIds(treeOut[1]) = << 1, 2 >>

\* The blocks have the shape of the tree they were mapped from.
RECURSIVE SameShape(_, _)
SameShape(nodes, blocks) ==
    /\ Len(blocks) = Len(nodes)
    /\ \A i \in 1 .. Len(nodes) :
           /\ (blocks[i].name = "core/navigation-link")
                  <=> (nodes[i].item.type # "block")
           /\ SameShape(nodes[i].children, blocks[i].innerBlocks)

\* C17: the blocks the mapper returns have the length and order of the
\* nodes given, and at every level as many innerBlocks as the node has
\* children, block nodes with children included.
C17_StructurePreserved ==
    (blocksOut # None /\ ~blocksOut[1].threw) =>
        SameShape(treeOut[1], blocksOut[1].blocks)

HasCycle(items) == ~Acyclic(items)

\* The calls made and the calls still to make never outnumber the items,
\* and a finished conversion has made one call for each node of the tree.
ConvertBounded ==
    /\ convVisits + Len(convStack) <= Len(treeItems)
    /\ (convStack = << >>) =>
           convVisits = Len(TreeIds(createDataTree(treeItems)))

Mapped == itemOut # None
MappedLink == Mapped /\ itemIn[1].type # "block"
MappedBlockItem == Mapped /\ itemIn[1].type = "block"
OutBlock == itemOut[1].blocks[1]
OutAttributes == OutBlock.attributes

NoValidBlock(content) == content = None \/ parse(content[1].raw) = << >>

\* C18: a menu item of type 'block' is never dropped and never makes the
\* mapper throw, whatever its content is, missing content included; when
\* parsing yields no block the result is a freeform block whose content
\* attribute holds the item's raw markup.
C18_BlockFallback ==
    MappedBlockItem =>
        /\ ~itemOut[1].threw
        /\ Len(itemOut[1].blocks) = 1
        /\ NoValidBlock(itemIn[1].content) =>
               /\ OutBlock.name = "core/freeform"
               /\ itemIn[1].content # None =>
                      OutAttributes.content.raw = itemIn[1].content[1].raw

\* C19: a menu item that is not of type 'block' maps to a navigation-link
\* block whose label is "(no title)" when title.rendered is empty or
\* missing, and title.rendered otherwise.
C19_FallbackLabel ==
    MappedLink =>
        /\ ~itemOut[1].threw
        /\ OutBlock.name = "core/navigation-link"
        /\ OutAttributes.label =
               IF itemIn[1].title.rendered \in { None, Some("") }
               THEN "(no title)" ELSE itemIn[1].title.rendered[1]

C19_Witness ==
    /\ MappedLink
    /\ itemIn[1].title.rendered = Some("")
    /\ OutAttributes.label = "(no title)"

EmptyText(field) == field = None \/ field = Some("")
EmptyTokens(list) == list = None \/ \A i \in 1 .. Len(list[1]) : list[1][i] = << >>

\* C20: in a navigation-link block the keys url, description, rel and
\* className are missing from the attributes whenever their source field
\* is empty or absent, and a key that is there never has an empty value.
C20_OptionalOmitted ==
    MappedLink =>
        /\ EmptyText(itemIn[1].url) => "url" \notin DOMAIN OutAttributes
        /\ EmptyText(itemIn[1].description) => "description" \notin DOMAIN OutAttributes
        /\ EmptyTokens(itemIn[1].xfn) => "rel" \notin DOMAIN OutAttributes
        /\ EmptyTokens(itemIn[1].classes) => "className" \notin DOMAIN OutAttributes
        /\ "url" \in DOMAIN OutAttributes => OutAttributes.url # ""
        /\ "description" \in DOMAIN OutAttributes => OutAttributes.description # ""
        /\ "rel" \in DOMAIN OutAttributes => OutAttributes.rel # << >>
        /\ "className" \in DOMAIN OutAttributes => OutAttributes.className # << >>

C20_Witness ==
    /\ MappedLink
    /\ itemIn[1].url = Some("")
    /\ itemIn[1].description = None
    /\ itemIn[1].xfn = Some(<< >>)
    /\ itemIn[1].classes = Some(<< << >> >>)
    /\ DOMAIN OutAttributes = { "label", "opensInNewTab" }

\* The entries of a token list that are not empty strings.
Compact(list) == IF list = None THEN << >> ELSE SelectSeq(list[1], LAMBDA e : e # << >>)

\* The attribute made from a token list: there iff some entry is not
\* empty, and then the entries that are not empty joined by single spaces.
JoinedTokens(key, list) ==
    /\ (key \in DOMAIN OutAttributes) <=> (Compact(list) # << >>)
    /\ (key \in DOMAIN OutAttributes) => OutAttributes[key] = join(Compact(list))

\* C21: rel is present iff xfn has an entry that is not falsy, and is then
\* the space-join of the entries of xfn that are not falsy; className is
\* made from classes by the same rule.
C21_FilteredJoin ==
    MappedLink =>
        /\ JoinedTokens("rel", itemIn[1].xfn)
        /\ JoinedTokens("className", itemIn[1].classes)

\* C22: opensInNewTab of a navigation-link block is a boolean, true exactly
\* when the target of the item is "_blank".
C22_OpensInNewTab ==
    MappedLink =>
        /\ OutAttributes.opensInNewTab \in BOOLEAN
        /\ OutAttributes.opensInNewTab <=> (itemIn[1].target = Some("_blank"))

C22_Witness ==
    /\ MappedLink
    /\ itemIn[1].target = Some("_self")
    /\ OutAttributes.opensInNewTab = FALSE

(***************************************************************************)
(* Properties of the Page Mapper.                                          *)
(***************************************************************************)
PagesConverted == pagesOut # None
PagesValue == pagesOut[1].value

\* C23: for every page list the Page Mapper returns one navigation-link
\* block per page, in the order of the pages, with type, id, url (the
\* page's link), label (title.rendered, "(no title)" when that is empty)
\* and opensInNewTab = false, and without inner blocks.
C23_OneLinkPerPage ==
    (PagesConverted /\ pagesIn # None) =>
        /\ PagesValue # None
        /\ Len(PagesValue[1]) = Len(pagesIn[1])
        /\ \A j \in 1 .. Len(pagesIn[1]) : IsPageLink(PagesValue[1][j], pagesIn[1][j])

C23_Witness ==
    /\ PagesConverted
    /\ pagesIn = Some(<< PageRecord(6, "", "/contact"), PageRecord(5, "About", "/about") >>)
    /\ PagesValue[1][1].attributes.label = "(no title)"
    /\ PagesValue[1][2].attributes.id = 5

\* C24: for an absent page list the Page Mapper returns null, for a loaded
\* list without pages an empty list of blocks, and the two results differ.
C24_NullWhenAbsent ==
    PagesConverted =>
        /\ pagesIn = None => PagesValue = None
        /\ pagesIn = Some(<< >>) => (PagesValue = Some(<< >>) /\ PagesValue # None)

C24_Witness ==
    /\ PagesConverted
    /\ pagesIn = None
    /\ PagesValue = None

\* C26: the step in which the Block Mapper returns its blocks leaves the
\* tree it was given (items, their xfn and classes lists, their children),
\* the flat list the tree was built from and the whole state of the
\* controller as they were.
C26_InputUnchanged ==
    [][(blocksOut' # blocksOut) =>
           (treeOut' = treeOut /\ treeItems' = treeItems /\ ctlVars' = ctlVars)]_vars

C26_Witness ==
    /\ blocksOut # None
    /\ ~blocksOut[1].threw
    /\ Len(treeItems) = 3
    /\ treeOut = Some(createDataTree(treeItems))
    /\ Len(treeOut[1]) = 1
    /\ Len(treeOut[1][1].children) = 2
    /\ Len(blocksOut[1].blocks[1].innerBlocks) = 2

(***************************************************************************)
(* Properties of the render of the placeholder.                            *)
(***************************************************************************)
FetchResolving == pagesStatus = "resolving" \/ menusStatus = "resolving"

\* C27: while the pages fetch or the menus fetch is resolving no creation
\* action is offered; once neither is, "Start empty" is offered, the menu
\* dropdown only if the menus have resolved to a list that is not empty,
\* and "Add all pages" only if the pages have resolved to such a list.
C27_EntryPoints ==
    /\ FetchResolving => actionsOffered = {}
    /\ ~FetchResolving => "empty" \in actionsOffered
    /\ "menu" \in actionsOffered =>
           (menusStatus = "resolved" /\ menus # None /\ Len(menus[1]) > 0)
    /\ "pages" \in actionsOffered =>
           (pagesStatus = "resolved" /\ pages # None /\ Len(pages[1]) > 0)

C27_Witness ==
    /\ ~FetchResolving
    /\ menus = Some(<< >>)
    /\ pages # None
    /\ Len(pages[1]) = 2
    /\ actionsOffered = { "empty", "pages" }
    /\ Len(clickLog) = 1
    /\ clickLog[1] = Str("pages")

(***************************************************************************)
(* Properties of the media-text block.                                     *)
(***************************************************************************)
AllowedWidths == 15 .. 85

\* C28: after any resize callbacks with any integer widths the temporary
\* width, when it is not null, and the mediaWidth written by
\* commitWidthChange are between 15 and 85, and applying the width
\* constraints twice gives what applying them once gives.
C28_WidthInRange ==
    /\ temporaryMediaWidth # None => temporaryMediaWidth[1] \in AllowedWidths
    /\ committed => mediaWidth \in AllowedWidths
    /\ \A width \in Widths :
           applyWidthConstraints(applyWidthConstraints(width)) = applyWidthConstraints(width)

C28_Witness ==
    /\ committed
    /\ mediaWidth = 15
    /\ temporaryMediaWidth = Some(85)
    /\ lastResize = Some([ op |-> "resize", width |-> 200 ])

\* C29: a step of onResize changes the temporary width and leaves the
\* mediaWidth attribute as it was; a step of onResizeStop writes the
\* attribute and sets the temporary width to null, so that the width
\* displayed after it is the attribute.
C29_ResizeProtocol ==
    [][lastResize' # None =>
           /\ lastResize'[1].op = "resize" =>
                  (mediaWidth' = mediaWidth /\ committed' = committed
                      /\ temporaryMediaWidth' # None)
           /\ lastResize'[1].op = "stop" =>
                  (temporaryMediaWidth' = None /\ committed'
                      /\ displayedWidth' = mediaWidth')]_vars

C29_Witness ==
    /\ lastResize = Some([ op |-> "stop", width |-> 50 ])
    /\ temporaryMediaWidth = None
    /\ mediaWidth = 50
    /\ displayedWidth = 50
    /\ selectionEnabled

(***************************************************************************)
(* Properties of getBlockTemplate.                                         *)
(***************************************************************************)
TemplateDone == tplPc = "done"
TempDirCreated == tempCwd # None

\* The external template installs, loads, is well-formed and readable.
TemplateUsable ==
    /\ tplEnv[1].installOk
    /\ tplEnv[1].module # None
    /\ tplEnv[1].module[1].defaultValues \in { "undefined", "object" }
    /\ tplEnv[1].module[1].templatesPath = "/templates"
    /\ tplEnv[1].outputsOk

\* C30: when getBlockTemplate has ended for an external template after it
\* created the temporary directory, the directory is gone, whether the
\* template was returned, the install failed or the definition was
\* invalid; and every ending other than the return is a CLIError.
C30_TempDirRemoved ==
    (TemplateDone /\ TempDirCreated) =>
        /\ tempCwd[1] \notin tempDirs
        /\ tplResult = IF TemplateUsable THEN Some("returned") ELSE Some("CLIError")

C30_Witness ==
    /\ TemplateDone
    /\ TempDirCreated
    /\ ~tplEnv[1].installOk
    /\ tplResult = Some("CLIError")
    /\ tempDirs = { "other" }

====
